---- MODULE Spec2Model ----
(***************************************************************************)
(* Model of src/lambda_function.py: the Gmail-to-S3 archiving Lambda.      *)
(*                                                                         *)
(* Python values are modelled as follows.                                  *)
(*   str    a sequence of one-character strings ("" is << >>)              *)
(*   data   the base64 str of a body: the sequence of its code points,     *)
(*          so that every character of Python is a value of the model      *)
(*   bytes  a sequence of integers 0..255                                  *)
(*   dict   a function whose DOMAIN is the set of keys that are present    *)
(*   None   the value None below, distinct from every str                  *)
(* A decoded text is the sequence of its Unicode code points.              *)
(***************************************************************************)
EXTENDS Integers, Sequences, FiniteSets, TLC

\* Python's None: a one-element sequence that is no str of the model
\* (every element of a str is a single character).
None == <<"None">>

\* Python truthiness of an optional str: neither None nor "".
Truthy(v) == v # None /\ v # << >>

\* dict.get(key) with the default None.
Get(d, k) == IF k \in DOMAIN d THEN d[k] ELSE None

(***************************************************************************)
(* base64.urlsafe_b64decode(data).decode('utf-8')                          *)
(***************************************************************************)

\* The standard base64 alphabet by code point, 'A'..'Z', 'a'..'z', '0'..'9',
\* '+' and '/'; a character's value is its position - 1.
B64Alphabet ==
  [i \in 1..64 |-> IF i <= 26 THEN 64 + i
                   ELSE IF i <= 52 THEN 70 + i
                   ELSE IF i <= 62 THEN i - 5
                   ELSE IF i = 63 THEN 43 ELSE 47]

\* urlsafe_b64decode first translates '-' (45) to '+' (43) and '_' (95) to
\* '/' (47).
UrlsafeTranslate(c) == IF c = 45 THEN 43 ELSE IF c = 95 THEN 47 ELSE c

IsB64Char(c) == \E i \in 1..64 : B64Alphabet[i] = c

B64Value(c) == (CHOOSE i \in 1..64 : B64Alphabet[i] = c) - 1

\* The result of a step that may raise.
Raised == [ok |-> FALSE]

\* binascii.a2b_base64 in its default (non-strict) mode: characters outside
\* the alphabet are skipped, a pad sequence that completes a quad ends the
\* input, and a quad left incomplete at the end of the input raises.
RECURSIVE A2bBase64(_, _, _, _, _, _)
A2bBase64(s, i, quad_pos, leftchar, pads, out) ==
  IF i > Len(s)
  THEN IF quad_pos # 0 THEN Raised ELSE [ok |-> TRUE, bytes |-> out]
  ELSE LET c == UrlsafeTranslate(s[i]) IN
       IF c = 61
       THEN IF quad_pos >= 2 /\ quad_pos + pads + 1 >= 4
            THEN [ok |-> TRUE, bytes |-> out]
            ELSE A2bBase64(s, i + 1, quad_pos, leftchar,
                           IF quad_pos >= 2 THEN pads + 1 ELSE pads, out)
       ELSE IF ~IsB64Char(c)
       THEN A2bBase64(s, i + 1, quad_pos, leftchar, pads, out)
       ELSE LET v == B64Value(c) IN
            CASE quad_pos = 0 ->
                   A2bBase64(s, i + 1, 1, v, 0, out)
              [] quad_pos = 1 ->
                   A2bBase64(s, i + 1, 2, v % 16, 0,
                             Append(out, (leftchar * 4 + v \div 16) % 256))
              [] quad_pos = 2 ->
                   A2bBase64(s, i + 1, 3, v % 4, 0,
                             Append(out, (leftchar * 16 + v \div 4) % 256))
              [] quad_pos = 3 ->
                   A2bBase64(s, i + 1, 0, 0, 0,
                             Append(out, (leftchar * 64 + v) % 256))

\* str.encode('ascii') succeeds on the character with code point c.
IsAscii(c) == c < 128

\* base64.urlsafe_b64decode of a str: the str is first encoded as ASCII,
\* which raises ValueError on any other character, then translated and
\* handed to a2b_base64.
urlsafe_b64decode(s) ==
  IF \E i \in 1..Len(s) : ~IsAscii(s[i])
  THEN Raised
  ELSE A2bBase64(s, 1, 0, 0, 0, << >>)

IsCont(b) == b >= 128 /\ b <= 191

\* bytes.decode('utf-8') with the default strict error handling.
RECURSIVE Utf8Decode(_, _, _)
Utf8Decode(b, i, out) ==
  IF i > Len(b) THEN [ok |-> TRUE, text |-> out]
  ELSE LET b0 == b[i]
           n  == Len(b) - i
       IN
       IF b0 < 128 THEN Utf8Decode(b, i + 1, Append(out, b0))
       ELSE IF b0 >= 194 /\ b0 <= 223
       THEN IF n >= 1 /\ IsCont(b[i + 1])
            THEN Utf8Decode(b, i + 2,
                            Append(out, (b0 - 192) * 64 + (b[i + 1] - 128)))
            ELSE Raised
       ELSE IF b0 >= 224 /\ b0 <= 239
       THEN IF /\ n >= 2
               /\ IsCont(b[i + 1])
               /\ IsCont(b[i + 2])
               /\ (b0 = 224 => b[i + 1] >= 160)
               /\ (b0 = 237 => b[i + 1] <= 159)
            THEN Utf8Decode(b, i + 3,
                            Append(out, (b0 - 224) * 4096
                                        + (b[i + 1] - 128) * 64
                                        + (b[i + 2] - 128)))
            ELSE Raised
       ELSE IF b0 >= 240 /\ b0 <= 244
       THEN IF /\ n >= 3
               /\ IsCont(b[i + 1])
               /\ IsCont(b[i + 2])
               /\ IsCont(b[i + 3])
               /\ (b0 = 240 => b[i + 1] >= 144)
               /\ (b0 = 244 => b[i + 1] <= 143)
            THEN Utf8Decode(b, i + 4,
                            Append(out, (b0 - 240) * 262144
                                        + (b[i + 1] - 128) * 4096
                                        + (b[i + 2] - 128) * 64
                                        + (b[i + 3] - 128)))
            ELSE Raised
       ELSE Raised

\* base64.urlsafe_b64decode(data).decode('utf-8'): the decoded text, or Raised.
DecodeData(data) ==
  LET raw == urlsafe_b64decode(data) IN
  IF raw.ok THEN Utf8Decode(raw.bytes, 1, << >>) ELSE Raised


(***************************************************************************)
(* Body extraction, lambda_handler lines 183-197                           *)
(***************************************************************************)

\* The for loop over payload['parts'] from part i on, body_data being the
\* value assigned so far.  A text/plain part with data is decoded and ends the
\* loop (break); a text/html part with data is decoded only while body_data
\* is still falsy.  A decode that raises leaves the loop with the exception.
RECURSIVE ScanParts(_, _, _)
ScanParts(parts, i, body_data) ==
  IF i > Len(parts) THEN [ok |-> TRUE, text |-> body_data]
  ELSE LET part == parts[i] IN
       IF part.mimeType = "text/plain" /\ "data" \in DOMAIN part.body
       THEN DecodeData(part.body.data)
       ELSE IF /\ part.mimeType = "text/html"
               /\ "data" \in DOMAIN part.body
               /\ body_data = << >>
       THEN LET d == DecodeData(part.body.data) IN
            IF d.ok THEN ScanParts(parts, i + 1, d.text) ELSE Raised
       ELSE ScanParts(parts, i + 1, body_data)

\* body_data as computed from message_detail, or Raised.
ExtractBody(message_detail) ==
  IF "payload" \in DOMAIN message_detail
  THEN LET payload == message_detail.payload IN
       IF "parts" \in DOMAIN payload
       THEN ScanParts(payload.parts, 1, << >>)
       ELSE IF "body" \in DOMAIN payload /\ "data" \in DOMAIN payload.body
       THEN DecodeData(payload.body.data)
       ELSE [ok |-> TRUE, text |-> << >>]
  ELSE [ok |-> TRUE, text |-> << >>]

\* dict.get('payload', {}).get('headers')
HeadersOf(message_detail) ==
  IF "payload" \in DOMAIN message_detail
  THEN Get(message_detail.payload, "headers")
  ELSE None

\* email_data_to_store as bound at lines 168-180, before the body is decoded
\* (labelIds, snippet, historyId, internalDate and sizeEstimate are copied
\* like threadId and left out).
EmailDataBound(message_detail) ==
  [ id        |-> Get(message_detail, "id"),
    threadId  |-> Get(message_detail, "threadId"),
    payload   |-> [ headers |-> HeadersOf(message_detail) ] ]

\* email_data_to_store after line 197 has added the decoded body.
EmailDataToStore(message_detail, body_data) ==
  [ id        |-> Get(message_detail, "id"),
    threadId  |-> Get(message_detail, "threadId"),
    payload   |-> [ headers |-> HeadersOf(message_detail),
                    decoded_body_plain_or_html |-> body_data ] ]

(***************************************************************************)
(* Configuration, lines 13-14                                              *)
(***************************************************************************)

\* os.environ.get('S3_BUCKET_NAME', ...): some bucket name.
S3_BUCKET_NAME == <<"b">>

\* os.environ.get('GMAIL_USER_ID', 'me'): the default.
GMAIL_USER_ID == <<"m", "e">>

(***************************************************************************)
(* Bounds and the inputs drawn in Init                                     *)
(***************************************************************************)

\* Pages the provider answers a listing with, at most.
MaxPages == 3

\* Parts of a multipart payload, at most.
MaxParts == 3

\* Invocations of the handler in one behaviour (the container is reused).
MaxRuns == 2

\* An object-valued variable that holds no object (Python None).
NoObject == [none |-> TRUE]

EventKeys == {"gmail_query", "gmail_user_id_s3_folder"}

EventStrs == {<< >>, <<"u">>, <<"v">>}

\* Every event dict over the two keys, each key absent, "" or non-empty.
Events == UNION {[S -> EventStrs] : S \in SUBSET EventKeys}

\* An environment variable is unset, set to "" or set.
EnvValues == {None, << >>, <<"s">>}

\* os.environ.get for the three auth values at module load.
Envs == [REFRESH_TOKEN : EnvValues, CLIENT_ID : EnvValues, CLIENT_SECRET : EnvValues]

MsgIds == {<<"1">>, <<"2">>, <<"3">>}

Summary(id) == [id |-> id, threadId |-> id]

SeqsUpTo(S, n) == UNION {[1..k -> S] : k \in 0..n}

\* What one page carries: no 'messages' field, an empty list, or one summary.
PageContents ==
  {[has |-> FALSE, msgs |-> << >>], [has |-> TRUE, msgs |-> << >>]}
    \cup {[has |-> TRUE, msgs |-> << Summary(id) >>] : id \in MsgIds}

\* The continuation cursor that leads to page i.
Token(i) == <<"t", ToString(i)>>

\* The list response for page i of n.
PageResponse(c, i, n) ==
  IF c.has
  THEN IF i < n THEN [messages |-> c.msgs, nextPageToken |-> Token(i + 1)]
                ELSE [messages |-> c.msgs]
  ELSE IF i < n THEN [resultSizeEstimate |-> 0, nextPageToken |-> Token(i + 1)]
                ELSE [resultSizeEstimate |-> 0]

\* Every finite chain of 1..MaxPages pages: all but the last carry a cursor.
PageChains ==
  UNION {{[i \in 1..n |-> PageResponse(cs[i], i, n)] : cs \in [1..n -> PageContents]}
           : n \in 1..MaxPages}

\* The messages of pages i.. of a chain, in page order.
RECURSIVE Listing(_, _)
Listing(chain, i) ==
  IF i > Len(chain) THEN << >>
  ELSE (IF "messages" \in DOMAIN chain[i] THEN chain[i].messages ELSE << >>)
         \o Listing(chain, i + 1)

\* The body dict of a payload or part: without or with a 'data' blob.
Bodies(blobs) == {[size |-> 0]} \cup {[size |-> Len(b), data |-> b] : b \in blobs}

\* 'YQ==' ("a"), '', 'YQ' (bad padding), 'PGI-' ("<b>", via the urlsafe '-'),
\* '_w==' (a byte that is no UTF-8), 'YQ==\u00e9' (a character that is not
\* ASCII), 'Y`\x00Q==' ("a", with two ASCII characters the decoder skips).
Blobs ==
  { <<89, 81, 61, 61>>, << >>, <<89, 81>>, <<80, 71, 73, 45>>, <<95, 119, 61, 61>>,
    <<89, 81, 61, 61, 233>>, <<89, 96, 0, 81, 61, 61>> }

MimeTypes == {"text/plain", "text/html", "image/png"}

Parts == [mimeType : MimeTypes, body : Bodies(Blobs)]

MultipartPayloads == {[headers |-> << >>, parts |-> ps] : ps \in SeqsUpTo(Parts, MaxParts)}

SinglePartPayloads(blobs) == {[headers |-> << >>, body |-> b] : b \in Bodies(blobs)}

\* The message details the extraction is checked on.
Details ==
  {[id |-> <<"1">>, threadId |-> <<"1">>]}
    \cup {[id |-> <<"1">>, threadId |-> <<"1">>, payload |-> p]
            : p \in MultipartPayloads \cup SinglePartPayloads(Blobs)}

\* The mailbox of the handler runs.  Message "1" is single-part and decodes
\* to "a"; message "2" is multipart, html before plain, and decodes to "b";
\* the decode of message "3" raises (bad padding).  A listing may name any of
\* them any number of times, so every pattern of decode failures occurs.
Mailbox ==
  [id \in MsgIds |->
     IF id = <<"1">>
     THEN [headers |-> << >>, body |-> [size |-> 4, data |-> <<89, 81, 61, 61>>]]
     ELSE IF id = <<"2">>
     THEN [headers |-> << >>,
           parts |-> << [mimeType |-> "text/html",
                         body |-> [size |-> 4, data |-> <<80, 71, 73, 45>>]],
                        [mimeType |-> "text/plain",
                         body |-> [size |-> 4, data |-> <<89, 103, 61, 61>>]] >>]
     ELSE [headers |-> << >>, body |-> [size |-> 2, data |-> <<89, 81>>]]]

\* The events and the configuration that pass the validation.
ValidEvents == {[gmail_query |-> <<"u">>, gmail_user_id_s3_folder |-> <<"v">>]}

ValidEnv == [REFRESH_TOKEN |-> <<"s">>, CLIENT_ID |-> <<"s">>, CLIENT_SECRET |-> <<"s">>]


(***************************************************************************)
(* State                                                                   *)
(***************************************************************************)

VARIABLES
  event,              \* the invocation event
  env,                \* REFRESH_TOKEN, CLIENT_ID, CLIENT_SECRET as read at load
  pages,              \* the provider's answer to the listing, page by page
  bucket,             \* the S3 bucket: a set of [Key, Body, ContentType]
  run,                \* the number of the current invocation
  pc,                 \* the handler's position
  creds,              \* get_gmail_service: creds
  service,            \* the Gmail service client, once built
  refreshCalls,       \* creds.refresh calls of this invocation
  listCalls,          \* this invocation's list calls: [args, ok]
  response,           \* list_messages: response
  messages,           \* list_messages: messages, then the handler's messages
  idx,                \* the position of msg_summary in messages (from 1)
  message_detail,     \* the handler's message_detail
  email_data_to_store,
  getCalls,           \* this invocation's get calls: [idx, id, format, ok]
  putCalls,           \* this invocation's put_object calls: [idx, Bucket, Key, ok]
  processed_messages,
  failed_messages,
  result,             \* what the handler returned
  previous            \* the invocation before this one: the bucket's keys at
                      \* its return and the ids of the messages it archived

vars ==
  << event, env, pages, bucket, run, pc, creds, service, refreshCalls,
     listCalls, response, messages, idx, message_detail, email_data_to_store,
     getCalls, putCalls, processed_messages, failed_messages, result,
     previous >>

\* The values one invocation starts with (the locals are not yet bound).
Fresh ==
  [ pc |-> "start", creds |-> NoObject, service |-> NoObject,
    refreshCalls |-> 0, listCalls |-> << >>, response |-> NoObject,
    messages |-> << >>, idx |-> 0, message_detail |-> NoObject,
    email_data_to_store |-> NoObject, getCalls |-> << >>, putCalls |-> << >>,
    processed_messages |-> 0, failed_messages |-> 0, result |-> NoObject ]

\* The variables of an invocation as the handler is entered.
FreshInvocation ==
  /\ pc = Fresh.pc
  /\ creds = Fresh.creds
  /\ service = Fresh.service
  /\ refreshCalls = Fresh.refreshCalls
  /\ listCalls = Fresh.listCalls
  /\ response = Fresh.response
  /\ messages = Fresh.messages
  /\ idx = Fresh.idx
  /\ message_detail = Fresh.message_detail
  /\ email_data_to_store = Fresh.email_data_to_store
  /\ getCalls = Fresh.getCalls
  /\ putCalls = Fresh.putCalls
  /\ processed_messages = Fresh.processed_messages
  /\ failed_messages = Fresh.failed_messages
  /\ result = Fresh.result

\* The handler is invoked with a well-formed event in a configured container,
\* against any listing of the mailbox.
Init ==
  /\ event \in ValidEvents
  /\ env = ValidEnv
  /\ pages \in PageChains
  /\ bucket = {}
  /\ run = 1
  /\ previous = NoObject
  /\ FreshInvocation

\* The variables no step of an invocation changes.
UNCHANGED_world == UNCHANGED << event, env, pages, run, previous >>

(***************************************************************************)
(* lambda_handler, lines 117-136: validation                               *)
(***************************************************************************)

Response(status, body) == [statusCode |-> status, body |-> body]

\* The keys of the objects in a bucket.
Keys(b) == {o.Key : o \in b}

\* The ids of the messages whose put_object call succeeded.
ArchivedIds(calls, msgs) ==
  {msgs[calls[i].idx].id : i \in {j \in 1..Len(calls) : calls[j].ok}}

\* return from the handler.
Return(r) == result' = r /\ pc' = "done"

\* A mutant of Validate: the folder identifier is not checked.
ValidateNoFolderCheck(ev, cfg) ==
  IF ~Truthy(Get(ev, "gmail_query"))
  THEN Response(400, [error |-> "gmail_query not provided in event"])
  ELSE IF \/ ~Truthy(cfg.REFRESH_TOKEN)
          \/ ~Truthy(cfg.CLIENT_ID)
          \/ ~Truthy(cfg.CLIENT_SECRET)
  THEN Response(500, [error |-> "Lambda configuration error: Missing Gmail auth environment variables."])
  ELSE NoObject

\* A mutant of Validate: a configuration error is answered like a bad request.
ValidateConfigAs400(ev, cfg) ==
  IF ~Truthy(Get(ev, "gmail_query"))
  THEN Response(400, [error |-> "gmail_query not provided in event"])
  ELSE IF ~Truthy(Get(ev, "gmail_user_id_s3_folder"))
  THEN Response(400, [error |-> "gmail_user_id_s3_folder not provided in event"])
  ELSE IF \/ ~Truthy(cfg.REFRESH_TOKEN)
          \/ ~Truthy(cfg.CLIENT_ID)
          \/ ~Truthy(cfg.CLIENT_SECRET)
  THEN Response(400, [error |-> "Lambda configuration error: Missing Gmail auth environment variables."])
  ELSE NoObject

\* The verdict of lines 117-136: the response returned, or NoObject to go on.
Validate(ev, cfg) ==
  LET gmail_query == Get(ev, "gmail_query")
      gmail_user_id_s3_folder == Get(ev, "gmail_user_id_s3_folder")
  IN
  IF ~Truthy(gmail_query)
  THEN Response(400, [error |-> "gmail_query not provided in event"])
  ELSE IF ~Truthy(gmail_user_id_s3_folder)
  THEN Response(400, [error |-> "gmail_user_id_s3_folder not provided in event"])
  ELSE IF \/ ~Truthy(cfg.REFRESH_TOKEN)
          \/ ~Truthy(cfg.CLIENT_ID)
          \/ ~Truthy(cfg.CLIENT_SECRET)
  THEN Response(500, [error |-> "Lambda configuration error: Missing Gmail auth environment variables."])
  ELSE NoObject

Validating ==
  /\ pc = "start"
  /\ LET r == Validate(event, env) IN
     IF r # NoObject
     THEN Return(r) /\ UNCHANGED << processed_messages, failed_messages >>
     ELSE /\ processed_messages' = 0
          /\ failed_messages' = 0
          /\ pc' = "auth"
          /\ UNCHANGED result
  /\ UNCHANGED_world
  /\ UNCHANGED << bucket, creds, service, refreshCalls, listCalls, response,
                  messages, idx, message_detail, email_data_to_store,
                  getCalls, putCalls >>

(***************************************************************************)
(* get_gmail_service, lines 23-58                                          *)
(***************************************************************************)

\* Credentials.from_authorized_user_info for creds_data without 'expiry':
\* no access token, and an expiry already in the past.
from_authorized_user_info(cfg) ==
  [token |-> None, expired |-> TRUE, refresh_token |-> cfg.REFRESH_TOKEN]

\* Lines 25-37.
ConstructCreds(cfg) ==
  IF Truthy(cfg.REFRESH_TOKEN) /\ Truthy(cfg.CLIENT_ID) /\ Truthy(cfg.CLIENT_SECRET)
  THEN from_authorized_user_info(cfg)
  ELSE NoObject

\* creds.valid: an access token that has not expired.
CredsValid(c) == c.token # None /\ ~c.expired

\* Line 39: if not creds or not creds.valid
NotUsable(c) == c = NoObject \/ ~CredsValid(c)

\* A mutant of ShouldRefresh: a refresh only of credentials that hold a token.
ShouldRefreshNeedsToken(c) ==
  c # NoObject /\ c.token # None /\ c.expired /\ Truthy(c.refresh_token)

\* Line 40: if creds and creds.expired and creds.refresh_token
ShouldRefresh(c) == c # NoObject /\ c.expired /\ Truthy(c.refresh_token)

\* creds.refresh(Request()) when the token endpoint accepts the exchange.
Refreshed(c) == [c EXCEPT !.token = <<"a", "t">>, !.expired = FALSE]

\* build('gmail', 'v1', credentials=creds)
build(c) == [credentials |-> c]

\* The handler's except clause, lines 214-219.
HandlerExcept(e) == Return(Response(500, [error |-> e]))

GetGmailService ==
  /\ pc = "auth"
  /\ LET c == ConstructCreds(env) IN
     IF NotUsable(c)
     THEN IF ShouldRefresh(c)
          THEN /\ refreshCalls' = refreshCalls + 1
               /\ \E accepted \in BOOLEAN :
                    IF accepted
                    THEN /\ creds' = Refreshed(c)
                         /\ service' = build(Refreshed(c))
                         /\ pc' = "list"
                         /\ UNCHANGED result
                    ELSE /\ creds' = c
                         /\ HandlerExcept("Failed to refresh Gmail token. Check REFRESH_TOKEN and credentials.")
                         /\ UNCHANGED service
          ELSE /\ creds' = c
               /\ HandlerExcept("Gmail authentication failed. Missing credentials.")
               /\ UNCHANGED << service, refreshCalls >>
     ELSE /\ creds' = c
          /\ service' = build(c)
          /\ pc' = "list"
          /\ UNCHANGED << result, refreshCalls >>
  /\ UNCHANGED_world
  /\ UNCHANGED << bucket, listCalls, response, messages, idx, message_detail,
                  email_data_to_store, getCalls, putCalls, processed_messages,
                  failed_messages >>


(***************************************************************************)
(* list_messages, lines 60-77, and the handler's lines 147-156             *)
(***************************************************************************)

\* The provider's answer to a list call: the first page when no pageToken is
\* passed, else the page the token leads to.
ProviderList(args) ==
  IF "pageToken" \in DOMAIN args
  THEN pages[CHOOSE i \in 1..Len(pages) : Token(i) = args.pageToken]
  ELSE pages[1]

\* A mutant of Extend: the page's messages replace the list.
ExtendOverwrites(msgs, resp) ==
  IF "messages" \in DOMAIN resp THEN resp.messages ELSE msgs

\* messages.extend(response['messages']) if the field is there.
Extend(msgs, resp) ==
  IF "messages" \in DOMAIN resp THEN msgs \o resp.messages ELSE msgs

\* The arguments of the first call, line 63.
FirstListArgs(q) == [userId |-> GMAIL_USER_ID, q |-> q]

\* The arguments of a later call, lines 69-70.
NextListArgs(q, resp) ==
  [userId |-> GMAIL_USER_ID, q |-> q, pageToken |-> resp.nextPageToken]

\* A mutant of ListRaises: the exception is swallowed and the messages
\* gathered so far are returned.
ListRaisesSwallowed ==
  /\ response' = [resultSizeEstimate |-> 0]
  /\ pc' = "page"
  /\ UNCHANGED << messages, result >>

\* A list call that raises: re-raised at line 77, caught at line 214.
ListRaises ==
  /\ HandlerExcept("HttpError")
  /\ UNCHANGED << response, messages >>

\* Lines 63-66.
ListFirst ==
  /\ pc = "list"
  /\ LET args == FirstListArgs(event.gmail_query) IN
     /\ \E ok \in BOOLEAN :
          /\ listCalls' = Append(listCalls, [args |-> args, ok |-> ok])
          /\ IF ok
             THEN /\ response' = ProviderList(args)
                  /\ messages' = Extend(<< >>, ProviderList(args))
                  /\ pc' = "page"
                  /\ UNCHANGED result
             ELSE ListRaises
  /\ UNCHANGED_world
  /\ UNCHANGED << bucket, creds, service, refreshCalls, idx, message_detail,
                  email_data_to_store, getCalls, putCalls, processed_messages,
                  failed_messages >>

\* Lines 68-72: one turn of the while loop.
ListNext ==
  /\ pc = "page"
  /\ "nextPageToken" \in DOMAIN response
  /\ LET args == NextListArgs(event.gmail_query, response) IN
     /\ \E ok \in BOOLEAN :
          /\ listCalls' = Append(listCalls, [args |-> args, ok |-> ok])
          /\ IF ok
             THEN /\ response' = ProviderList(args)
                  /\ messages' = Extend(messages, ProviderList(args))
                  /\ pc' = "page"
                  /\ UNCHANGED result
             ELSE ListRaises
  /\ UNCHANGED_world
  /\ UNCHANGED << bucket, creds, service, refreshCalls, idx, message_detail,
                  email_data_to_store, getCalls, putCalls, processed_messages,
                  failed_messages >>

\* Lines 73-74, then the handler's lines 149-156: an empty listing returns at
\* once, any other enters the loop at its first message.
ListReturn ==
  /\ pc = "page"
  /\ "nextPageToken" \notin DOMAIN response
  /\ IF messages = << >>
     THEN /\ Return(Response(200, [message |-> "No messages found matching the query.",
                                   processed_messages |-> 0]))
          /\ UNCHANGED idx
     ELSE /\ idx' = 1
          /\ pc' = "fetch"
          /\ UNCHANGED result
  /\ UNCHANGED_world
  /\ UNCHANGED << bucket, creds, service, refreshCalls, listCalls, response,
                  messages, message_detail, email_data_to_store, getCalls,
                  putCalls, processed_messages, failed_messages >>

(***************************************************************************)
(* The per-message loop, lines 156-205                                     *)
(***************************************************************************)

\* The provider's answer to messages().get(id, format='full').
ProviderGet(message_id) ==
  [id |-> message_id, threadId |-> message_id, payload |-> Mailbox[message_id]]

\* The for loop moves to the next msg_summary, or falls through to line 207.
NextMessage ==
  IF idx < Len(messages)
  THEN idx' = idx + 1 /\ pc' = "fetch"
  ELSE idx' = idx /\ pc' = "finish"

\* A mutant of MessageExcept: the failure ends the loop.
MessageExceptBreaks ==
  /\ failed_messages' = failed_messages + 1
  /\ idx' = idx
  /\ pc' = "finish"

\* Lines 202-205: the except clause of one message.
MessageExcept ==
  /\ failed_messages' = failed_messages + 1
  /\ NextMessage

\* Lines 157-160 and get_message_detail, lines 79-89.
FetchDetail ==
  /\ pc = "fetch"
  /\ LET msg_id == messages[idx].id IN
     \E ok \in BOOLEAN :
       /\ getCalls' = Append(getCalls, [idx |-> idx, id |-> msg_id, format |-> "full", ok |-> ok])
       /\ IF ok
          THEN /\ message_detail' = ProviderGet(msg_id)
               /\ pc' = "extract"
               /\ UNCHANGED << idx, failed_messages >>
          ELSE /\ MessageExcept
               /\ UNCHANGED message_detail
  /\ UNCHANGED_world
  /\ UNCHANGED << bucket, creds, service, refreshCalls, listCalls, response,
                  messages, email_data_to_store, putCalls, processed_messages,
                  result >>

\* Lines 168-197: the record to store, with the decoded body.  The record is
\* bound before the decode, so a decode that raises leaves it without the body.
ExtractStep ==
  /\ pc = "extract"
  /\ LET r == ExtractBody(message_detail) IN
     IF r.ok
     THEN /\ email_data_to_store' = EmailDataToStore(message_detail, r.text)
          /\ pc' = "upload"
          /\ UNCHANGED << idx, failed_messages >>
     ELSE /\ email_data_to_store' = EmailDataBound(message_detail)
          /\ MessageExcept
  /\ UNCHANGED_world
  /\ UNCHANGED << bucket, creds, service, refreshCalls, listCalls, response,
                  messages, message_detail, getCalls, putCalls,
                  processed_messages, result >>

\* A mutant of FileKey: the key also carries the time of the invocation.
FileKeyWithRun(gmail_user_id_folder, message_id) ==
  <<"g","m","a","i","l","/">> \o gmail_user_id_folder
    \o <<"/","m","e","s","s","a","g","e","_">> \o message_id
    \o <<"_", ToString(run)>> \o <<".","j","s","o","n">>

\* f"gmail/{gmail_user_id_folder}/message_{message_id}.json"
FileKey(gmail_user_id_folder, message_id) ==
  <<"g","m","a","i","l","/">> \o gmail_user_id_folder
    \o <<"/","m","e","s","s","a","g","e","_">> \o message_id
    \o <<".","j","s","o","n">>


\* json.dumps(message_data, indent=4): the serialised record.
json_dumps(v) == <<"json", v>>

\* The bucket after put_object: the object under Key is replaced.
PutObject(b, key, body) ==
  {o \in b : o.Key # key}
    \cup {[Key |-> key, Body |-> body, ContentType |-> "application/json"]}

\* Lines 199-201 and upload_to_s3, lines 91-104.
UploadStep ==
  /\ pc = "upload"
  /\ LET msg_id == messages[idx].id
         file_key == FileKey(event.gmail_user_id_s3_folder, msg_id)
     IN
     \E ok \in BOOLEAN :
       /\ putCalls' = Append(putCalls, [idx |-> idx, Bucket |-> S3_BUCKET_NAME, Key |-> file_key, ok |-> ok])
       /\ IF ok
          THEN /\ bucket' = PutObject(bucket, file_key, json_dumps(email_data_to_store))
               /\ processed_messages' = processed_messages + 1
               /\ NextMessage
               /\ UNCHANGED failed_messages
          ELSE /\ MessageExcept
               /\ UNCHANGED << bucket, processed_messages >>
  /\ UNCHANGED_world
  /\ UNCHANGED << creds, service, refreshCalls, listCalls, response, messages,
                  message_detail, email_data_to_store, getCalls, result >>

\* f"Processing complete. Processed: {processed_messages}, Failed: {failed_messages}."
SummaryMessage(p, f) == <<"Processing complete.", p, f>>

\* Lines 207-212.
Finish ==
  /\ pc = "finish"
  /\ Return(Response(200, [message |-> SummaryMessage(processed_messages, failed_messages),
                           processed_messages |-> processed_messages,
                           failed_messages |-> failed_messages]))
  /\ UNCHANGED_world
  /\ UNCHANGED << bucket, creds, service, refreshCalls, listCalls, response,
                  messages, idx, message_detail, email_data_to_store, getCalls,
                  putCalls, processed_messages, failed_messages >>

\* The same event is delivered again: lambda_handler is entered anew, with
\* the module state (configuration, S3 client) and the bucket as they are.
Invoke ==
  /\ pc = "done"
  /\ run < MaxRuns
  /\ run' = run + 1
  /\ pc' = Fresh.pc
  /\ creds' = Fresh.creds
  /\ service' = Fresh.service
  /\ refreshCalls' = Fresh.refreshCalls
  /\ listCalls' = Fresh.listCalls
  /\ response' = Fresh.response
  /\ messages' = Fresh.messages
  /\ idx' = Fresh.idx
  /\ message_detail' = Fresh.message_detail
  /\ email_data_to_store' = Fresh.email_data_to_store
  /\ getCalls' = Fresh.getCalls
  /\ putCalls' = Fresh.putCalls
  /\ processed_messages' = Fresh.processed_messages
  /\ failed_messages' = Fresh.failed_messages
  /\ result' = Fresh.result
  /\ previous' = [keys |-> Keys(bucket), archived |-> ArchivedIds(putCalls, messages)]
  /\ UNCHANGED << event, env, pages, bucket >>

Next ==
  \/ Validating
  \/ GetGmailService
  \/ ListFirst
  \/ ListNext
  \/ ListReturn
  \/ FetchDetail
  \/ ExtractStep
  \/ UploadStep
  \/ Finish
  \/ Invoke

Spec == Init /\ [][Next]_vars

\* The validation: any event, any configuration, against a short listing.
InitValidate ==
  /\ event \in Events
  /\ env \in Envs
  /\ pages \in {c \in PageChains : Len(c) <= 2}
  /\ bucket = {}
  /\ run = 1
  /\ previous = NoObject
  /\ FreshInvocation

SpecValidate == InitValidate /\ [][Next]_vars

\* The extraction on its own: the handler stands at line 168 with the detail
\* of the only listed message in hand, for every detail in Details.
InitBody ==
  /\ event \in ValidEvents
  /\ env = ValidEnv
  /\ pages = << [messages |-> << Summary(<<"1">>) >>] >>
  /\ message_detail \in Details
  /\ bucket = {}
  /\ run = 1
  /\ previous = NoObject
  /\ pc = "extract"
  /\ creds = Refreshed(from_authorized_user_info(env))
  /\ service = build(creds)
  /\ refreshCalls = 1
  /\ listCalls = << [args |-> FirstListArgs(event.gmail_query), ok |-> TRUE] >>
  /\ response = pages[1]
  /\ messages = << Summary(<<"1">>) >>
  /\ idx = 1
  /\ email_data_to_store = NoObject
  /\ getCalls = << [idx |-> 1, id |-> <<"1">>, format |-> "full", ok |-> TRUE] >>
  /\ putCalls = << >>
  /\ processed_messages = 0
  /\ failed_messages = 0
  /\ result = NoObject

SpecBody == InitBody /\ [][ExtractStep]_vars


(***************************************************************************)
(* Properties                                                              *)
(***************************************************************************)

\* The handler has returned.
Returned == pc = "done"

\* The handler entered the per-message loop: the listing succeeded and was
\* not empty.
LoopEntered == idx >= 1

\* Message i of the listing passed all three stages in this invocation: its
\* get call succeeded, its body decodes, and its put_object call succeeded.
AllStagesOk(i) ==
  /\ \E j \in 1..Len(getCalls) : getCalls[j].idx = i /\ getCalls[j].ok
  /\ ExtractBody(ProviderGet(messages[i].id)).ok
  /\ \E j \in 1..Len(putCalls) : putCalls[j].idx = i /\ putCalls[j].ok

\* The keys this invocation wrote an object under.
KeysWritten == {putCalls[j].Key : j \in {k \in 1..Len(putCalls) : putCalls[k].ok}}

\* C1: per-message isolation.  Once the handler has returned from a non-empty
\* listing of n messages, whatever stages failed for whichever messages: a get
\* call was made for every message in listing order, the status is 200,
\* processed_messages is the number of messages whose three stages all
\* succeeded, failed_messages is n minus that, and objects were written for
\* exactly those messages (the first invocation leaves exactly their keys in
\* the bucket).
C1_PerMessageIsolation ==
  (Returned /\ LoopEntered) =>
    LET n    == Len(messages)
        good == {i \in 1..n : AllStagesOk(i)}
    IN
    /\ Len(getCalls) = n
    /\ \A i \in 1..n : getCalls[i].idx = i /\ getCalls[i].id = messages[i].id
    /\ result.statusCode = 200
    /\ result.body.processed_messages = Cardinality(good)
    /\ result.body.failed_messages = n - Cardinality(good)
    /\ result.body.processed_messages + result.body.failed_messages = n
    /\ {putCalls[j].idx : j \in {k \in 1..Len(putCalls) : putCalls[k].ok}} = good
    /\ KeysWritten \subseteq Keys(bucket)
    /\ run = 1 => Keys(bucket) = KeysWritten

\* Three messages, the fetch of the second fails: processed 2, failed 1, and
\* objects for the first and the third only.
C1_Witness ==
  /\ Returned
  /\ LoopEntered
  /\ Len(messages) = 3
  /\ Len(getCalls) = 3
  /\ getCalls[1].ok /\ ~getCalls[2].ok /\ getCalls[3].ok
  /\ result.body.processed_messages = 2
  /\ result.body.failed_messages = 1
  /\ {putCalls[j].idx : j \in 1..Len(putCalls)} = {1, 3}

\* The event lacks a non-empty gmail_query or gmail_user_id_s3_folder.
BadRequest ==
  \/ ~Truthy(Get(event, "gmail_query"))
  \/ ~Truthy(Get(event, "gmail_user_id_s3_folder"))

\* One of the three auth values is absent (or empty).
AuthConfigMissing ==
  \/ ~Truthy(env.REFRESH_TOKEN)
  \/ ~Truthy(env.CLIENT_ID)
  \/ ~Truthy(env.CLIENT_SECRET)

\* This invocation has made no call to a collaborator.
NoCalls ==
  /\ refreshCalls = 0
  /\ listCalls = << >>
  /\ getCalls = << >>
  /\ putCalls = << >>

\* C2: an event without a non-empty gmail_query or gmail_user_id_s3_folder is
\* answered with status 400, and the invocation makes no token refresh, no
\* list call, no get call and no put_object call.
C2_BadRequest400 ==
  BadRequest => (NoCalls /\ (Returned => result.statusCode = 400))

C2_Witness ==
  /\ Returned
  /\ "gmail_query" \in DOMAIN event
  /\ Truthy(event.gmail_query)
  /\ "gmail_user_id_s3_folder" \notin DOMAIN event
  /\ ~AuthConfigMissing
  /\ result.statusCode = 400

\* C3 as stated: for all requests, a missing auth value is answered with
\* status 500 and no call is made.
C3_Original ==
  AuthConfigMissing => (NoCalls /\ (Returned => result.statusCode = 500))

\* C3 amended: for all requests with a non-empty gmail_query and
\* gmail_user_id_s3_folder, a missing auth value is answered with status 500;
\* for all requests, a missing auth value means no call is made.
C3_ConfigError500 ==
  AuthConfigMissing =>
    /\ NoCalls
    /\ (Returned /\ ~BadRequest) => result.statusCode = 500

C3_Witness ==
  /\ Returned
  /\ ~BadRequest
  /\ env.REFRESH_TOKEN # None /\ env.CLIENT_ID # None
  /\ env.CLIENT_SECRET = None
  /\ result.statusCode = 500

\* The credential refresh of this invocation was rejected.
RefreshRejected == refreshCalls >= 1 /\ creds # NoObject /\ creds.token = None

\* Some list call of this invocation failed.
ListFailed == \E i \in 1..Len(listCalls) : ~listCalls[i].ok

\* C4: fail-fast before the loop.  When the credential refresh is rejected or
\* any list call fails, on whichever page, the handler returns status 500 and
\* the invocation fetches no message and writes no object.
C4_FailFast ==
  (RefreshRejected \/ ListFailed) =>
    /\ pc = "done"
    /\ result.statusCode = 500
    /\ getCalls = << >>
    /\ putCalls = << >>
    /\ run = 1 => bucket = {}

\* The second list call fails after the first page returned a message.
C4_Witness ==
  /\ Returned
  /\ Len(listCalls) >= 2
  /\ listCalls[1].ok
  /\ ~listCalls[Len(listCalls)].ok
  /\ messages # << >>
  /\ result.statusCode = 500

\* list_messages has returned its list to the handler.
ListingDone ==
  \/ pc \in {"fetch", "extract", "upload", "finish"}
  \/ pc = "page" /\ "nextPageToken" \notin DOMAIN response
  \/ pc = "done" /\ listCalls # << >> /\ ~ListFailed

\* C5: pagination.  The first list call carries no cursor and call i > 1
\* carries the nextPageToken of response i - 1, never more calls than pages;
\* once list_messages has returned, exactly one call per page was made and
\* the list is the concatenation of the pages' messages in page order.
C5_Pagination ==
  /\ Len(listCalls) <= Len(pages)
  /\ \A i \in 1..Len(listCalls) :
       /\ listCalls[i].args.q = event.gmail_query
       /\ IF i = 1
          THEN "pageToken" \notin DOMAIN listCalls[i].args
          ELSE /\ "pageToken" \in DOMAIN listCalls[i].args
               /\ listCalls[i].args.pageToken = pages[i - 1].nextPageToken
  /\ ListingDone =>
       /\ Len(listCalls) = Len(pages)
       /\ messages = Listing(pages, 1)

\* Three pages, one of them without a 'messages' field, two messages in all.
C5_Witness ==
  /\ ListingDone
  /\ Len(pages) = 3
  /\ Len(listCalls) = 3
  /\ \E i \in 1..3 : "messages" \notin DOMAIN pages[i]
  /\ "messages" \in DOMAIN pages[1] /\ Len(pages[1].messages) = 1
  /\ Len(messages) = 2


\* C7: idempotent archiving.  Within a request the key of a put_object call
\* depends on the message id alone, the bucket holds one object per key, and
\* an invocation that archives the same messages as the one before it leaves
\* the bucket with the same keys as that one did: the second run of a request
\* leaves one key per archived message, as the first run alone does.
C7_IdempotentArchiving ==
  /\ \A i, j \in 1..Len(putCalls) :
       messages[putCalls[i].idx].id = messages[putCalls[j].idx].id
         => putCalls[i].Key = putCalls[j].Key
  /\ Cardinality(bucket) = Cardinality(Keys(bucket))
  /\ (Returned /\ run >= 2 /\ ArchivedIds(putCalls, messages) = previous.archived) =>
       /\ Keys(bucket) = previous.keys
       /\ KeysWritten \subseteq previous.keys
       /\ run = 2 => Cardinality(Keys(bucket)) = Cardinality(previous.archived)

\* Both runs archived messages "1" and "2"; the bucket holds two keys.
C7_Witness ==
  /\ Returned
  /\ run = 2
  /\ previous.archived = {<<"1">>, <<"2">>}
  /\ ArchivedIds(putCalls, messages) = {<<"1">>, <<"2">>}
  /\ Len(putCalls) >= 2
  /\ Cardinality(Keys(bucket)) = 2

\* C8: a valid request whose listing succeeds and is empty returns status 200
\* with a result that reports processed = 0 and failed = 0, and makes no get
\* call and no put_object call.
C8_EmptyListing ==
  (Returned /\ listCalls # << >> /\ ~ListFailed /\ Listing(pages, 1) = << >>) =>
    /\ result.statusCode = 200
    /\ "processed_messages" \in DOMAIN result.body
    /\ result.body.processed_messages = 0
    /\ "failed_messages" \in DOMAIN result.body
    /\ result.body.failed_messages = 0
    /\ getCalls = << >>
    /\ putCalls = << >>

\* get_gmail_service has run in this invocation.
AuthDone == pc \notin {"start", "auth"}

\* C9: the credentials the handler builds hold a refresh token and no access
\* token, so get_gmail_service performs exactly one refresh; the service is
\* built only with the refreshed credentials, which hold a token that has not
\* expired, and a rejected refresh raises: no service, status 500.
C9_CredentialRefresh ==
  AuthDone =>
    /\ refreshCalls = 1
    /\ creds # NoObject
    /\ Truthy(creds.refresh_token)
    /\ service # NoObject =>
         /\ service.credentials = creds
         /\ creds.token # None
         /\ ~creds.expired
    /\ service = NoObject =>
         /\ creds.token = None
         /\ Returned
         /\ result.statusCode = 500
         /\ listCalls = << >>

C9_Witness ==
  /\ pc = "list"
  /\ refreshCalls = 1
  /\ service # NoObject
  /\ service.credentials.token # None

\* The extraction has run on message_detail.
Extracted == pc \in {"upload", "finish"}

IsMultipart(d) == "payload" \in DOMAIN d /\ "parts" \in DOMAIN d.payload

\* The positions of the parts of the given type that carry a body blob.
PartsWithData(d, mime) ==
  {i \in 1..Len(d.payload.parts) :
     d.payload.parts[i].mimeType = mime /\ "data" \in DOMAIN d.payload.parts[i].body}

Min(S) == CHOOSE x \in S : \A y \in S : x <= y

\* The decoded content of the first part of the given type with a body blob.
FirstDecoded(d, mime) ==
  DecodeData(d.payload.parts[Min(PartsWithData(d, mime))].body.data)

\* The handler holds this text as the decoded body of the record to store.
BodyIs(text) ==
  /\ pc = "upload"
  /\ email_data_to_store.payload.decoded_body_plain_or_html = text

\* C6: plain text always wins.  For every multipart payload with a text/plain
\* part that carries a body blob, the extracted body is the decoded content
\* of the first such part, wherever the text/html parts stand.
C6_PlainAlwaysWins ==
  ( /\ Extracted
    /\ IsMultipart(message_detail)
    /\ PartsWithData(message_detail, "text/plain") # {}
    /\ FirstDecoded(message_detail, "text/plain").ok )
  => BodyIs(FirstDecoded(message_detail, "text/plain").text)

\* C10: the HTML fallback is first-match.  For every multipart payload with
\* no text/plain part that carries a body blob and some text/html part that
\* does, the extracted body is the decoded content of the first such
\* text/html part.
C10_HtmlFirstMatch ==
  ( /\ Extracted
    /\ IsMultipart(message_detail)
    /\ PartsWithData(message_detail, "text/plain") = {}
    /\ PartsWithData(message_detail, "text/html") # {}
    /\ FirstDecoded(message_detail, "text/html").ok )
  => BodyIs(FirstDecoded(message_detail, "text/html").text)

====
